---- MODULE Spec2Model ----
(***************************************************************************)
(* Model of src/main.go: the concurrent synthesis orchestrator             *)
(* (synthesizeChunks), the caller's output loop (main) and the text        *)
(* splitter (chunkText).                                                   *)
(*                                                                         *)
(* Go slices are 0-based; the model's sequences are 1-based, so chunk      *)
(* index i of the source is position i+1 here.                             *)
(*                                                                         *)
(* The closure of line 73 captures the loop variables i and chunk; the     *)
(* model gives every task its own copy (the per-iteration loop variables   *)
(* of Go 1.22 and later).                                                  *)
(***************************************************************************)
EXTENDS Integers, Sequences, FiniteSets, TLC

\* ------------------------------------------------------------------ bounds
MaxChunks == 3      \* most chunks handed to synthesizeChunks
MaxLen == 5         \* longest text handed to chunkText
MaxSize == 3        \* largest chunk size handed to chunkText

\* ------------------------------------------------------------- value sets
Audio == {"A", "B"}                 \* response.AudioContent values
Voices == {"", "en-US-Chirp3-HD-Orus"}
LanguageCodes == {"", "en-US"}
Space == " "
Tab == "\t"
Alphabet == {"a", Space, Tab}       \* bytes of the text: a letter, a space, another whitespace
IsSpace(c) == c \in {Space, Tab}    \* unicode.IsSpace, as strings.TrimSpace uses it

VARIABLES
    \* --- synthesizeChunks and main
    pc,            \* position of the main goroutine
    chunks,        \* argument chunks (chunk i is the text id i)
    voice,         \* argument voice
    languageCode,  \* argument languageCode
    ctxDone,       \* ctx.Err() # nil: the caller's cancellation token is triggered
    ctxAtEntry,    \* value of ctxDone read at line 34
    client,        \* "none", "open", "closed", "failed": the texttospeech client
    closeCount,    \* number of client.Close() calls
    chunkMap,      \* the result table of line 63 ("nil" = slot never written)
    groupDone,     \* errGroupCtx cancelled by the errgroup (first error, or Wait)
    groupErr,      \* task whose error the errgroup kept (0 = none)
    loopIdx,       \* loop variable of line 67 (next position to dispatch)
    task,          \* per chunk: "idle", "launched", "inflight", "ok", "failed"
    calls,         \* per chunk: number of client.SynthesizeSpeech invocations
    response,      \* per chunk: audio the service returned ("none" = nothing)
    writeLog,      \* sequence of [task, slot] records: the writes of line 95
    result,        \* first return value of synthesizeChunks (<<>> = nil)
    err,           \* second return value: "nil" or the kind of error
    errTask,       \* task the returned error came from (0 = not a task's error)
    failLog,       \* the tasks that returned an error, in the order they returned
    writeIdx,      \* main's loop of line 214: next element to write
    writeTries,    \* sequence of [idx, ok] records: the calls of outFile.Write
    output,        \* the audio values the output file received, in order
    \* --- chunkText
    cpc,           \* "off", "loop" or "done"
    text,          \* the argument input as passed
    size,          \* the argument size
    input,         \* the local input (the remaining text)
    cchunks,       \* the local chunks
    lastSplit,     \* split of the last iteration (-1 before the first)
    lastWindow,    \* input[:size] of the last iteration
    iters          \* iterations of the loop of line 113 so far

orchVars == <<pc, chunks, voice, languageCode, ctxDone, ctxAtEntry, client, closeCount,
              chunkMap, groupDone, groupErr, loopIdx, task, calls, response, writeLog,
              result, err, errTask, failLog, writeIdx, writeTries, output>>
chunkVars == <<cpc, text, size, input, cchunks, lastSplit, lastWindow, iters>>
vars == <<orchVars, chunkVars>>

N == Len(chunks)
Idx == 1..N

\* ------------------------------------------------------- synthesizeChunks

\* errGroupCtx is derived from ctx (line 65): it is done when ctx is, or when
\* the group cancelled it.
ScopeDone == ctxDone \/ groupDone

\* Lines 34-48: the checks made before any work, in source order.
PreCheckVoiceFirst(c, v, l, n) ==
    IF v = "" THEN "ErrEmptyVoice"
    ELSE IF l = "" THEN "ErrEmptyLanguageCode"
    ELSE IF c THEN "Canceled"
    ELSE IF n = 0 THEN "empty"
    ELSE "proceed"
PreCheckEmptyFirst(c, v, l, n) ==
    IF c THEN "Canceled"
    ELSE IF n = 0 THEN "empty"
    ELSE IF v = "" THEN "ErrEmptyVoice"
    ELSE IF l = "" THEN "ErrEmptyLanguageCode"
    ELSE "proceed"
PreCheckNoEmpty(c, v, l, n) ==
    IF c THEN "Canceled"
    ELSE IF v = "" THEN "ErrEmptyVoice"
    ELSE IF l = "" THEN "ErrEmptyLanguageCode"
    ELSE "proceed"
PreCheck(c, v, l, n) ==
    IF c THEN "Canceled"
    ELSE IF v = "" THEN "ErrEmptyVoice"
    ELSE IF l = "" THEN "ErrEmptyLanguageCode"
    ELSE IF n = 0 THEN "empty"
    ELSE "proceed"

\* Line 95: the slot a task writes is the index it was created with.
SlotOfShared(i) == IF loopIdx <= N THEN loopIdx ELSE N
SlotOfAppend(i) == Len(writeLog) + 1
SlotOf(i) == i

\* Line 104: errGroup.Wait() returns once every launched task has returned.
FirstErrorOrAllFinished ==
    \/ groupErr # 0
    \/ \A i \in Idx : task[i] \notin {"launched", "inflight"}
AllResultsIn == \A i \in Idx : task[i] \in {"ok", "failed"}
AllTasksFinished == \A i \in Idx : task[i] \notin {"launched", "inflight"}

\* Lines 104-108: the value returned next to the error of Wait.
ReturnValueKeepPartial(e) == chunkMap
ReturnValue(e) == IF e # 0 THEN <<>> ELSE chunkMap

Init ==
    /\ pc = "entry"
    /\ chunks \in {[i \in 1..n |-> i] : n \in 0..MaxChunks}
    /\ voice \in Voices
    /\ languageCode \in LanguageCodes
    /\ ctxDone \in BOOLEAN
    /\ ctxAtEntry = FALSE
    /\ client = "none"
    /\ closeCount = 0
    /\ chunkMap = <<>>
    /\ groupDone = FALSE
    /\ groupErr = 0
    /\ loopIdx = 1
    /\ task = [i \in 1..Len(chunks) |-> "idle"]
    /\ calls = [i \in 1..Len(chunks) |-> 0]
    /\ response = [i \in 1..Len(chunks) |-> "none"]
    /\ writeLog = <<>>
    /\ result = <<>>
    /\ err = "unset"
    /\ errTask = 0
    /\ failLog = <<>>
    /\ writeIdx = 1
    /\ writeTries = <<>>
    /\ output = <<>>
    /\ cpc = "off"
    /\ text = <<>>
    /\ size = 1
    /\ input = <<>>
    /\ cchunks = <<>>
    /\ lastSplit = -1
    /\ lastWindow = <<>>
    /\ iters = 0

\* Lines 34-48.
Enter ==
    /\ pc = "entry"
    /\ ctxAtEntry' = ctxDone
    /\ LET r == PreCheck(ctxDone, voice, languageCode, N) IN
        CASE r = "proceed" ->
                /\ pc' = "newclient"
                /\ UNCHANGED <<result, err>>
          [] r = "empty" ->
                /\ pc' = "returned"
                /\ result' = <<>>
                /\ err' = "nil"
          [] OTHER ->
                /\ pc' = "returned"
                /\ result' = <<>>
                /\ err' = r
    /\ UNCHANGED <<chunks, voice, languageCode, ctxDone, client, closeCount, chunkMap,
                   groupDone, groupErr, loopIdx, task, calls, response, writeLog,
                   errTask, failLog, writeIdx, writeTries, output>>
    /\ UNCHANGED chunkVars

\* The caller triggers the cancellation token while the batch is running.
CancelCtx ==
    /\ pc \in {"newclient", "loop", "wait", "defer"}
    /\ ~ctxDone
    /\ ctxDone' = TRUE
    /\ UNCHANGED <<pc, chunks, voice, languageCode, ctxAtEntry, client, closeCount,
                   chunkMap, groupDone, groupErr, loopIdx, task, calls, response,
                   writeLog, result, err, errTask, failLog, writeIdx, writeTries, output>>
    /\ UNCHANGED chunkVars

\* Lines 50-65: NewClient succeeds; the deferred Close is registered, the
\* result table allocated and the group created.
NewClientOk ==
    /\ pc = "newclient"
    /\ client' = "open"
    /\ chunkMap' = [i \in Idx |-> "nil"]
    /\ pc' = "loop"
    /\ UNCHANGED <<chunks, voice, languageCode, ctxDone, ctxAtEntry, closeCount,
                   groupDone, groupErr, loopIdx, task, calls, response, writeLog,
                   result, err, errTask, failLog, writeIdx, writeTries, output>>
    /\ UNCHANGED chunkVars

\* Lines 50-53: NewClient fails.
NewClientFailDeferred ==
    /\ pc = "newclient"
    /\ client' = "failed"
    /\ result' = <<>>
    /\ err' = "NewClient"
    /\ pc' = "defer"
    /\ UNCHANGED <<chunks, voice, languageCode, ctxDone, ctxAtEntry, closeCount,
                   chunkMap, groupDone, groupErr, loopIdx, task, calls, response,
                   writeLog, errTask, failLog, writeIdx, writeTries, output>>
    /\ UNCHANGED chunkVars
NewClientFail ==
    /\ pc = "newclient"
    /\ client' = "failed"
    /\ result' = <<>>
    /\ err' = "NewClient"
    /\ pc' = "returned"
    /\ UNCHANGED <<chunks, voice, languageCode, ctxDone, ctxAtEntry, closeCount,
                   chunkMap, groupDone, groupErr, loopIdx, task, calls, response,
                   writeLog, errTask, failLog, writeIdx, writeTries, output>>
    /\ UNCHANGED chunkVars

\* Lines 67-72, one iteration: break when ctx is done, else start the task.
Dispatch ==
    /\ pc = "loop"
    /\ loopIdx <= N
    /\ IF ctxDone
       THEN /\ pc' = "wait"
            /\ UNCHANGED <<loopIdx, task>>
       ELSE /\ task' = [task EXCEPT ![loopIdx] = "launched"]
            /\ loopIdx' = loopIdx + 1
            /\ pc' = "loop"
    /\ UNCHANGED <<chunks, voice, languageCode, ctxDone, ctxAtEntry, client, closeCount,
                   chunkMap, groupDone, groupErr, calls, response, writeLog, result,
                   err, errTask, failLog, writeIdx, writeTries, output>>
    /\ UNCHANGED chunkVars

\* Line 67: the range is exhausted.
DispatchEnd ==
    /\ pc = "loop"
    /\ loopIdx > N
    /\ pc' = "wait"
    /\ UNCHANGED <<chunks, voice, languageCode, ctxDone, ctxAtEntry, client, closeCount,
                   chunkMap, groupDone, groupErr, loopIdx, task, calls, response,
                   writeLog, result, err, errTask, failLog, writeIdx, writeTries, output>>
    /\ UNCHANGED chunkVars

\* Lines 72-87: the task's goroutine builds the request and calls
\* client.SynthesizeSpeech(errGroupCtx, request). The closure makes the call
\* whether or not errGroupCtx is done; what the call returns is the service's
\* and the client library's choice (TaskReturnOk, TaskReturnErr).
TaskInvoke(i) ==
    /\ i \in Idx
    /\ task[i] = "launched"
    /\ calls' = [calls EXCEPT ![i] = @ + 1]
    /\ task' = [task EXCEPT ![i] = "inflight"]
    /\ UNCHANGED <<pc, chunks, voice, languageCode, ctxDone, ctxAtEntry, client,
                   closeCount, chunkMap, groupDone, groupErr, loopIdx, response,
                   writeLog, result, err, errTask, failLog, writeIdx, writeTries, output>>
    /\ UNCHANGED chunkVars

\* Lines 87-99: the call in flight returns audio; the task stores it.
TaskReturnOk(i, a) ==
    /\ i \in Idx
    /\ task[i] = "inflight"
    /\ response' = [response EXCEPT ![i] = a]
    /\ chunkMap' = [chunkMap EXCEPT ![SlotOf(i)] = a]
    /\ writeLog' = Append(writeLog, [task |-> i, slot |-> SlotOf(i)])
    /\ task' = [task EXCEPT ![i] = "ok"]
    /\ UNCHANGED <<pc, chunks, voice, languageCode, ctxDone, ctxAtEntry, client,
                   closeCount, groupDone, groupErr, loopIdx, calls, result, err,
                   errTask, failLog, writeIdx, writeTries, output>>
    /\ UNCHANGED chunkVars

\* Line 72 (errgroup.Go) with line 104: the group keeps the error of the first
\* task that returns one; Wait returns that error.
KeepLastErr(old, i) == i
KeepErr(old, i) == IF old = 0 THEN i ELSE old

\* Lines 87-93: the call in flight returns an error (the service's, or the
\* context's once errGroupCtx is done); the task returns it, and errgroup.Go
\* keeps the first error returned and cancels errGroupCtx.
TaskReturnErrRetry(i) ==
    /\ i \in Idx
    /\ task[i] = "inflight"
    /\ IF calls[i] < 2
       THEN /\ task' = [task EXCEPT ![i] = "launched"]
            /\ UNCHANGED <<groupErr, groupDone, failLog>>
       ELSE /\ task' = [task EXCEPT ![i] = "failed"]
            /\ groupErr' = KeepErr(groupErr, i)
            /\ groupDone' = TRUE
            /\ failLog' = Append(failLog, i)
    /\ UNCHANGED <<pc, chunks, voice, languageCode, ctxDone, ctxAtEntry, client,
                   closeCount, chunkMap, loopIdx, calls, response, writeLog, result,
                   err, errTask, writeIdx, writeTries, output>>
    /\ UNCHANGED chunkVars
TaskReturnErr(i) ==
    /\ i \in Idx
    /\ task[i] = "inflight"
    /\ task' = [task EXCEPT ![i] = "failed"]
    /\ groupErr' = KeepErr(groupErr, i)
    /\ groupDone' = TRUE
    /\ failLog' = Append(failLog, i)
    /\ UNCHANGED <<pc, chunks, voice, languageCode, ctxDone, ctxAtEntry, client,
                   closeCount, chunkMap, loopIdx, calls, response, writeLog, result,
                   err, errTask, writeIdx, writeTries, output>>
    /\ UNCHANGED chunkVars

\* Lines 104-108: Wait returns and the return values are set.
Wait ==
    /\ pc = "wait"
    /\ AllTasksFinished
    /\ groupDone' = TRUE
    /\ result' = ReturnValue(groupErr)
    /\ err' = IF groupErr # 0 THEN "Synthesize" ELSE "nil"
    /\ errTask' = groupErr
    /\ pc' = "defer"
    /\ UNCHANGED <<failLog, chunks, voice, languageCode, ctxDone, ctxAtEntry, client, closeCount,
                   chunkMap, groupErr, loopIdx, task, calls, response, writeLog,
                   writeIdx, writeTries, output>>
    /\ UNCHANGED chunkVars

\* Lines 54-61: the deferred function runs on return and closes the client
\* (an error of Close is only logged).
DeferClose ==
    /\ pc = "defer"
    /\ closeCount' = closeCount + 1
    /\ client' = "closed"
    /\ pc' = "returned"
    /\ UNCHANGED <<chunks, voice, languageCode, ctxDone, ctxAtEntry, chunkMap,
                   groupDone, groupErr, loopIdx, task, calls, response, writeLog,
                   result, err, errTask, failLog, writeIdx, writeTries, output>>
    /\ UNCHANGED chunkVars

\* ------------------------------------------------------------------- main

\* Lines 210-212: FatalWithExitingMessage ends the process.
MainFatal ==
    /\ pc = "returned"
    /\ err # "nil"
    /\ pc' = "fatal"
    /\ UNCHANGED <<chunks, voice, languageCode, ctxDone, ctxAtEntry, client, closeCount,
                   chunkMap, groupDone, groupErr, loopIdx, task, calls, response,
                   writeLog, result, err, errTask, failLog, writeIdx, writeTries, output>>
    /\ UNCHANGED chunkVars

\* Lines 214-218, one iteration: a failed write is logged and the loop goes on.
\* Writing a slot that holds no audio writes no bytes.
MainWriteAbort(ok) ==
    /\ pc = "returned"
    /\ err = "nil"
    /\ writeIdx <= Len(result)
    /\ writeTries' = Append(writeTries, [idx |-> writeIdx, ok |-> ok])
    /\ output' = IF ok /\ result[writeIdx] # "nil"
                 THEN Append(output, result[writeIdx])
                 ELSE output
    /\ writeIdx' = IF ok THEN writeIdx + 1 ELSE Len(result) + 1
    /\ UNCHANGED <<pc, chunks, voice, languageCode, ctxDone, ctxAtEntry, client,
                   closeCount, chunkMap, groupDone, groupErr, loopIdx, task, calls,
                   response, writeLog, result, err, errTask, failLog>>
    /\ UNCHANGED chunkVars
MainWrite(ok) ==
    /\ pc = "returned"
    /\ err = "nil"
    /\ writeIdx <= Len(result)
    /\ writeTries' = Append(writeTries, [idx |-> writeIdx, ok |-> ok])
    /\ output' = IF ok /\ result[writeIdx] # "nil"
                 THEN Append(output, result[writeIdx])
                 ELSE output
    /\ writeIdx' = writeIdx + 1
    /\ UNCHANGED <<pc, chunks, voice, languageCode, ctxDone, ctxAtEntry, client,
                   closeCount, chunkMap, groupDone, groupErr, loopIdx, task, calls,
                   response, writeLog, result, err, errTask, failLog>>
    /\ UNCHANGED chunkVars

\* Line 219: main returns.
MainExit ==
    /\ pc = "returned"
    /\ err = "nil"
    /\ writeIdx > Len(result)
    /\ pc' = "exit"
    /\ UNCHANGED <<chunks, voice, languageCode, ctxDone, ctxAtEntry, client, closeCount,
                   chunkMap, groupDone, groupErr, loopIdx, task, calls, response,
                   writeLog, result, err, errTask, failLog, writeIdx, writeTries, output>>
    /\ UNCHANGED chunkVars

Next ==
    \/ Enter
    \/ CancelCtx
    \/ NewClientOk
    \/ NewClientFail
    \/ Dispatch
    \/ DispatchEnd
    \/ \E i \in 1..MaxChunks : TaskInvoke(i)
    \/ \E i \in 1..MaxChunks, a \in Audio : TaskReturnOk(i, a)
    \/ \E i \in 1..MaxChunks : TaskReturnErr(i)
    \/ Wait
    \/ DeferClose
    \/ MainFatal
    \/ \E ok \in BOOLEAN : MainWrite(ok)
    \/ MainExit

Spec == Init /\ [][Next]_vars

\* -------------------------------------------------------------- chunkText

Texts == UNION {[1..n -> Alphabet] : n \in 0..MaxLen}

\* strings.LastIndex(w, " "): 0-based position of the last space, -1 if none.
LastIndex(w) ==
    IF \E k \in 1..Len(w) : w[k] = Space
    THEN (CHOOSE k \in 1..Len(w) :
            /\ w[k] = Space
            /\ \A j \in (k + 1)..Len(w) : w[j] # Space) - 1
    ELSE -1

\* strings.TrimSpace(s): s without its leading and trailing white space.
TrimSpace(s) ==
    LET keep == {k \in 1..Len(s) : ~IsSpace(s[k])} IN
    IF keep = {} THEN <<>>
    ELSE SubSeq(s, CHOOSE k \in keep : \A j \in keep : k <= j,
                   CHOOSE k \in keep : \A j \in keep : k >= j)

\* Lines 114-117: the split position of one iteration.
SplitOfWholeInput(in, sz) ==
    LET split == LastIndex(in) IN
    IF split = -1 THEN sz ELSE split
SplitOf(in, sz) ==
    LET split == LastIndex(SubSeq(in, 1, sz)) IN
    IF split = -1 THEN sz ELSE split

\* Line 119: the remaining text after a split, input[split:] trimmed.
RestOfNoTrim(in, split) == SubSeq(in, split + 1, Len(in))
RestOfSkip(in, split) == TrimSpace(SubSeq(in, split + 2, Len(in)))
RestOf(in, split) == TrimSpace(SubSeq(in, split + 1, Len(in)))

\* State before the first statement of chunkText(text, size).
ChunkInit ==
    /\ cpc = "loop"
    /\ text \in Texts
    /\ size \in 1..MaxSize
    /\ input = text
    /\ cchunks = <<>>
    /\ lastSplit = -1
    /\ lastWindow = <<>>
    /\ iters = 0
    /\ pc = "off"
    /\ chunks = <<>>
    /\ voice = ""
    /\ languageCode = ""
    /\ ctxDone = FALSE
    /\ ctxAtEntry = FALSE
    /\ client = "none"
    /\ closeCount = 0
    /\ chunkMap = <<>>
    /\ groupDone = FALSE
    /\ groupErr = 0
    /\ loopIdx = 1
    /\ task = <<>>
    /\ calls = <<>>
    /\ response = <<>>
    /\ writeLog = <<>>
    /\ result = <<>>
    /\ err = "unset"
    /\ errTask = 0
    /\ failLog = <<>>
    /\ writeIdx = 1
    /\ writeTries = <<>>
    /\ output = <<>>

\* Lines 113-120: one iteration of the loop.
ChunkStep ==
    /\ cpc = "loop"
    /\ Len(input) > size
    /\ LET split == SplitOf(input, size) IN
        /\ lastWindow' = SubSeq(input, 1, size)
        /\ lastSplit' = split
        /\ cchunks' = Append(cchunks, TrimSpace(SubSeq(input, 1, split)))
        /\ input' = RestOf(input, split)
    /\ iters' = iters + 1
    /\ UNCHANGED <<cpc, text, size>>
    /\ UNCHANGED orchVars

\* Lines 113, 121-124: the loop ends, the rest is appended if not empty.
ChunkFinish ==
    /\ cpc = "loop"
    /\ Len(input) <= size
    /\ cchunks' = IF Len(input) > 0 THEN Append(cchunks, input) ELSE cchunks
    /\ cpc' = "done"
    /\ UNCHANGED <<text, size, input, lastSplit, lastWindow, iters>>
    /\ UNCHANGED orchVars

ChunkNext ==
    \/ ChunkStep
    \/ ChunkFinish

ChunkSpec == ChunkInit /\ [][ChunkNext]_vars

\* ------------------------------------------------------ checked properties

\* synthesizeChunks has set its return values.
Returned == {"defer", "returned", "fatal", "exit"}
\* synthesizeChunks has returned to main.
BackInMain == {"returned", "fatal", "exit"}
NoTaskWork == \A i \in Idx : task[i] = "idle" /\ calls[i] = 0 /\ response[i] = "none"

\* C1: when synthesizeChunks has returned and no remote call failed, element i
\* of the returned sequence is the audio the service returned for chunk i,
\* whatever the order in which the tasks completed.
C1_ResultInIndexOrder ==
    (pc \in Returned /\ \A i \in Idx : task[i] # "failed") =>
        \A i \in Idx : response[i] # "none" =>
            /\ err = "nil"
            /\ Len(result) = N
            /\ result[i] = response[i]

\* Three tasks all succeeded, the last chunk's task completed first, and the
\* service returned different audio for chunks 0 and 1.
C1_Witness ==
    /\ pc = "returned"
    /\ N = 3
    /\ \A i \in Idx : task[i] = "ok"
    /\ writeLog[1].task = 3
    /\ response[1] # response[2]

\* C2: when the remote call of any task has failed, synthesizeChunks returns an
\* error and a nil result, and main writes nothing to the output file.
C2_FailureReturnsNothing ==
    (pc \in Returned /\ \E i \in Idx : task[i] = "failed") =>
        /\ err # "nil"
        /\ result = <<>>
        /\ writeTries = <<>>
        /\ output = <<>>

\* One task failed between two tasks that stored their audio, and main exited.
C2_Witness ==
    /\ pc = "fatal"
    /\ N = 3
    /\ task[2] = "failed"
    /\ Len(writeLog) = 2
    /\ groupErr = 2

\* C3: whenever synthesizeChunks returns without error for n > 0 chunks, a
\* task was launched for every index and every slot holds the audio of a
\* successful call for that chunk.
C3_FullyPopulated ==
    (pc \in Returned /\ err = "nil" /\ N > 0) =>
        /\ Len(result) = N
        /\ \A i \in Idx :
            /\ task[i] = "ok"
            /\ result[i] # "nil"
            /\ result[i] = response[i]

\* C4 (as stated): with an empty voice or language code synthesizeChunks fails
\* with ErrEmptyVoice / ErrEmptyLanguageCode, with no client acquired, no task
\* launched and no remote call made.
C4_Original ==
    (pc # "entry" /\ (voice = "" \/ languageCode = "")) =>
        /\ err \in {"ErrEmptyVoice", "ErrEmptyLanguageCode"}
        /\ result = <<>>
        /\ client = "none"
        /\ closeCount = 0
        /\ NoTaskWork

\* C4 (amended): the same, provided the cancellation token is not already
\* triggered at the call; an empty voice is reported before an empty
\* language code.
C4_InvalidArgument ==
    (pc # "entry" /\ ~ctxAtEntry /\ (voice = "" \/ languageCode = "")) =>
        /\ err = (IF voice = "" THEN "ErrEmptyVoice" ELSE "ErrEmptyLanguageCode")
        /\ result = <<>>
        /\ client = "none"
        /\ closeCount = 0
        /\ NoTaskWork

\* An empty chunk sequence and an empty voice: the call has failed with
\* ErrEmptyVoice.
C4_Witness ==
    /\ pc = "fatal"
    /\ ~ctxAtEntry
    /\ voice = ""
    /\ N = 0
    /\ err = "ErrEmptyVoice"

\* C5: when the cancellation token is triggered at the call, synthesizeChunks
\* fails with the context's error, for every chunks, voice and languageCode,
\* with no client acquired, no task launched and no remote call made.
C5_AlreadyCancelled ==
    (pc # "entry" /\ ctxAtEntry) =>
        /\ err = "Canceled"
        /\ result = <<>>
        /\ client = "none"
        /\ closeCount = 0
        /\ NoTaskWork

\* A call with a triggered token, an empty voice and three chunks has failed.
C5_Witness ==
    /\ pc = "fatal"
    /\ ctxAtEntry
    /\ voice = ""
    /\ N = MaxChunks
    /\ err = "Canceled"

\* C6 (as stated): for an empty chunk sequence and any voice and language
\* code, synthesizeChunks returns an empty result and a nil error.
C6_Original ==
    (pc \in Returned /\ N = 0) =>
        /\ result = <<>>
        /\ err = "nil"

\* C6 (amended): for an empty chunk sequence, a non-empty voice, a non-empty
\* language code and a token not triggered at the call, synthesizeChunks
\* returns an empty result and a nil error (and acquires no client).
C6_EmptyChunks ==
    (pc # "entry" /\ N = 0 /\ voice # "" /\ languageCode # "" /\ ~ctxAtEntry) =>
        /\ result = <<>>
        /\ err = "nil"
        /\ client = "none"

\* A valid call with no chunk has returned and main has finished.
C6_Witness ==
    /\ pc = "exit"
    /\ N = 0
    /\ voice # ""
    /\ languageCode # ""
    /\ err = "nil"
    /\ output = <<>>

\* C7: once the shared cancellation scope is cancelled, no task that has not
\* started its remote call invokes the client, and no further task is
\* launched.
C7_NoWorkAfterCancel ==
    [][(pc \in {"loop", "wait"} /\ ScopeDone) =>
            \A i \in Idx :
                /\ calls'[i] = calls[i]
                /\ (task[i] = "idle" => task'[i] = "idle")]_vars

\* C8: the client is closed at most once, only when no launched task is still
\* running, and it has been closed whenever synthesizeChunks has returned
\* after acquiring it; it is never closed when it was not acquired.
C8_ReleasedOnceAfterTasks ==
    /\ closeCount <= 1
    /\ closeCount = 1 => \A i \in Idx : task[i] \in {"idle", "ok", "failed"}
    /\ (pc \in BackInMain /\ client \notin {"none", "failed"}) =>
            (closeCount = 1 /\ client = "closed")
    /\ client \in {"none", "failed"} => closeCount = 0

\* The token was cancelled during the batch, one task failed, one succeeded,
\* and the client has been closed.
C8_Witness ==
    /\ pc = "fatal"
    /\ closeCount = 1
    /\ ctxDone
    /\ ~ctxAtEntry
    /\ \E i \in Idx : task[i] = "failed"
    /\ \E i \in Idx : task[i] = "ok"

\* C9: every write of the result table is made by a task to the slot of its
\* own index, and no slot is written twice.
C9_SlotOwnership ==
    \A k \in 1..Len(writeLog) :
        /\ writeLog[k].slot = writeLog[k].task
        /\ \A j \in 1..Len(writeLog) : j # k => writeLog[j].slot # writeLog[k].slot

\* Three tasks have written their slots, in an order that is not index order.
C9_Witness ==
    /\ Len(writeLog) = 3
    /\ writeLog[1].task = 2
    /\ writeLog[2].task = 3

\* C10: for a non-empty text and a positive size, chunkText returns no empty
\* chunk.
C10_NoEmptyChunk ==
    (cpc = "done" /\ text # <<>>) =>
        \A k \in 1..Len(cchunks) : cchunks[k] # <<>>

\* C11 (for a text that is not all white space; the empty text yields no
\* chunk): for a text no longer than size, chunkText returns exactly one
\* chunk, the text with its leading and trailing white space trimmed.
C11_ShortTextOneTrimmedChunk ==
    (cpc = "done" /\ TrimSpace(text) # <<>> /\ Len(text) <= size) =>
        cchunks = <<TrimSpace(text)>>

\* C12: every chunk chunkText returns is at most size long.
C12_ChunkLengthBound ==
    \A k \in 1..Len(cchunks) : Len(cchunks[k]) <= size

\* A text cut twice in the middle of a token: chunks of exactly size bytes.
C12_Witness ==
    /\ cpc = "done"
    /\ size = 2
    /\ Len(cchunks) = 3
    /\ Len(cchunks[1]) = size
    /\ lastSplit = size

\* The bytes of s that are not white space, in order.
Strip(s) == SelectSeq(s, LAMBDA c : ~IsSpace(c))
RECURSIVE Concat(_)
Concat(ss) == IF ss = <<>> THEN <<>> ELSE Head(ss) \o Concat(Tail(ss))
IsPrefix(p, t) == Len(p) <= Len(t) /\ SubSeq(t, 1, Len(p)) = p
\* t is the strings of cs in order, with nothing but white space before,
\* between and after them.
RECURSIVE Interleaved(_, _)
Interleaved(t, cs) ==
    \/ cs = <<>> /\ Strip(t) = <<>>
    \/ /\ cs # <<>>
       /\ IsPrefix(Head(cs), t)
       /\ Interleaved(SubSeq(t, Len(Head(cs)) + 1, Len(t)), Tail(cs))
    \/ /\ cs # <<>>
       /\ t # <<>>
       /\ IsSpace(t[1])
       /\ Interleaved(Tail(t), cs)

\* C13: the text is the returned chunks in index order with only white space
\* between and around them, so the chunks with all white space removed,
\* concatenated, are the text with all white space removed. While the loop
\* runs the same holds of the chunks so far followed by the remaining text.
C13_ChunksRebuildText ==
    LET parts == IF cpc = "done" THEN cchunks ELSE Append(cchunks, input) IN
    cpc # "off" =>
        /\ Interleaved(text, parts)
        /\ Strip(Concat(parts)) = Strip(text)

\* Three chunks came out of a text with white space inside and a token cut.
C13_Witness ==
    /\ cpc = "done"
    /\ Len(cchunks) = 3
    /\ Strip(text) # text
    /\ Len(Strip(text)) >= 3
    /\ \E k \in 1..Len(cchunks) : Len(Strip(cchunks[k])) >= 2

\* C14: in each iteration, when the window input[:size] holds a white-space
\* character the split is at the last white-space character of the window
\* (0-based position), and at size only when the window holds none.
C14_SplitAtLastWhitespace ==
    iters > 0 =>
        LET ws == {k \in 1..Len(lastWindow) : IsSpace(lastWindow[k])} IN
        IF ws = {}
        THEN lastSplit = size
        ELSE lastSplit = (CHOOSE k \in ws : \A j \in ws : j <= k) - 1

\* C18: every iteration of the loop strictly shortens the remaining text, and
\* chunkText, when it keeps running, returns.
C18_Terminates ==
    /\ [][iters' # iters => Len(input') < Len(input)]_vars
    /\ <>(cpc = "done")

\* chunkText returned after an iteration whose split position was 0.
C18_Witness ==
    /\ cpc = "done"
    /\ iters >= 2
    /\ \E k \in 1..Len(cchunks) : cchunks[k] = <<>>
    /\ Len(text) = MaxLen

\* chunkText runs on: its next statement is eventually executed.
ChunkFairSpec == ChunkSpec /\ WF_vars(ChunkNext)

\* synthesizeChunks and its tasks keep running: the main goroutine executes its
\* next statement, a launched goroutine reaches its call, and every remote
\* call eventually returns (with audio or an error).
FairSpec ==
    /\ Spec
    /\ WF_vars(Enter)
    /\ WF_vars(NewClientOk \/ NewClientFail)
    /\ WF_vars(Dispatch)
    /\ WF_vars(DispatchEnd)
    /\ WF_vars(Wait)
    /\ WF_vars(DeferClose)
    /\ \A i \in 1..MaxChunks :
        /\ WF_vars(TaskInvoke(i))
        /\ WF_vars((\E a \in Audio : TaskReturnOk(i, a)) \/ TaskReturnErr(i))

\* C15: tasks are launched for the indices before the loop variable, one each,
\* and every task has invoked the client at most once (never before it was
\* launched, exactly once when it has finished): at most n calls in all.
C15_AtMostOneCallPerChunk ==
    \A i \in Idx :
        /\ calls[i] <= 1
        /\ task[i] # "idle" <=> i < loopIdx
        /\ task[i] \in {"idle", "launched"} => calls[i] = 0
        /\ task[i] \in {"inflight", "ok", "failed"} => calls[i] = 1

\* A batch of three ended with a failed chunk, each chunk called once.
C15_Witness ==
    /\ pc = "fatal"
    /\ N = 3
    /\ task[1] = "failed"
    /\ \A i \in Idx : calls[i] = 1

\* C16: the error the group holds, and the one synthesizeChunks returns, is
\* that of the first task that returned an error; later errors do not
\* replace it.
C16_FirstErrorWins ==
    failLog # <<>> =>
        /\ groupErr = failLog[1]
        /\ pc \in Returned => (err = "Synthesize" /\ errTask = failLog[1])

\* Three tasks failed, the second chunk's first, and its error was returned.
C16_Witness ==
    /\ pc = "fatal"
    /\ Len(failLog) = 3
    /\ failLog[1] = 2
    /\ errTask = 2

\* C17: synthesizeChunks never returns while a launched task is running, and
\* (every remote call returning) it eventually returns.
C17_WaitsThenReturns ==
    /\ [](pc \in Returned => \A i \in Idx : task[i] \in {"idle", "ok", "failed"})
    /\ <>(pc \in BackInMain)

\* Returned after a cancellation that left a chunk without a task, with one
\* task failed and one succeeded.
C17_Witness ==
    /\ pc = "returned"
    /\ N = 3
    /\ ctxDone /\ ~ctxAtEntry
    /\ task[1] = "failed"
    /\ task[2] = "ok"
    /\ task[3] = "idle"

\* C19: main calls Write once per element, in index order, whether or not
\* earlier calls failed; when none failed the file received the audio of the
\* returned sequence in index order and nothing else.
C19_OneWritePerChunk ==
    /\ \A k \in 1..Len(writeTries) : writeTries[k].idx = k
    /\ pc = "exit" => Len(writeTries) = Len(result)
    /\ (pc = "exit" /\ \A k \in 1..Len(writeTries) : writeTries[k].ok) =>
            output = SelectSeq(result, LAMBDA a : a # "nil")

\* The first of three writes failed and the other two were still made.
C19_Witness ==
    /\ pc = "exit"
    /\ Len(result) = 3
    /\ ~writeTries[1].ok
    /\ writeTries[2].ok /\ writeTries[3].ok
    /\ output = <<result[2], result[3]>>
    /\ result[2] # result[3]

\* C20: when NewClient fails, synthesizeChunks returns that error and a nil
\* result at once: no task, no remote call, no Close.
C20_AcquireFailure ==
    /\ client = "failed" <=> err = "NewClient"
    /\ client = "failed" =>
        /\ pc \in BackInMain
        /\ result = <<>>
        /\ closeCount = 0
        /\ NoTaskWork

\* NewClient failed for a valid call with three chunks and main exited.
C20_Witness ==
    /\ pc = "fatal"
    /\ N = MaxChunks
    /\ err = "NewClient"
    /\ ~ctxDone
====
